---- MODULE Spec2Model ----
(***************************************************************************)
(* A model of the artifact ingestion and timeline pipeline of the DFIR     *)
(* agent: api/timeline.py (build_timeline and its loaders),                *)
(* api/ingest_utils.py (build_and_index_case_corpus) and api/embedder.py   *)
(* (embed_texts).                                                          *)
(*                                                                         *)
(* Text that the code inspects character by character (timestamps) is a    *)
(* sequence of one-character strings; text that the code only copies,      *)
(* concatenates and measures (field values, descriptions) is a string.     *)
(***************************************************************************)
EXTENDS Integers, Sequences, FiniteSets, TLC

VARIABLES
    py311,      \* the interpreter is Python >= 3.11 (fromisoformat accepts "Z")
    evtxDir,    \* <case>/artifacts/evtx as the timeline sees it: NoDir or name -> lines
    regDir,     \* <case>/artifacts/registry as the timeline sees it
    result,     \* outcome of the last build_timeline call on the current directories
    parsed,     \* outcomes of the last calls of _parse_timestamp, oldest first
    caseFiles,  \* the case directory as ingestion sees it: path -> lines
    evtxSummary,\* <case>/evtx_summaries.jsonl
    regSummary, \* <case>/registry_summaries.jsonl
    store,      \* the vector store: case id -> the chunk ids its collection holds
    addCalls,   \* every embed_texts call that reached the store, oldest first
    lastRun     \* the last build_and_index_case_corpus run

timelineVars == <<evtxDir, regDir, result>>
ingestVars == <<caseFiles, evtxSummary, regSummary, store, addCalls, lastRun>>
vars == <<py311, timelineVars, parsed, ingestVars>>

----------------------------------------------------------------------------
(* Bounds of the model *)

\* most record lines written into the two derivative directories together
MaxLines == 2
\* number of lines of the one large derivative file
BulkLen == 201
\* length of the one long field value
LongLen == 400
\* most _parse_timestamp outcomes remembered
MaxParsed == 2
\* most lines written into the case directory before ingestion
MaxCaseLines == 2
\* embed_texts calls after which no further ingestion is started
MaxCalls == 3

----------------------------------------------------------------------------
(* Python values *)

None == [t |-> "none"]
PyStr(chars) == [t |-> "str", c |-> chars]
PyInt(n) == [t |-> "int", n |-> n]
PyDict(items) == [t |-> "dict", items |-> items]
PyList(len) == [t |-> "list", len |-> len]

\* bool(v) for the values above
Truthy(v) ==
    CASE v.t = "none" -> FALSE
      [] v.t = "str" -> Len(v.c) > 0
      [] v.t = "int" -> v.n # 0
      [] v.t = "dict" -> Len(v.items) > 0
      [] v.t = "list" -> v.len > 0

Digits == <<"0", "1", "2", "3", "4", "5", "6", "7", "8", "9">>
IsDigit(ch) == \E i \in 1..10 : Digits[i] = ch
DigitVal(ch) == (CHOOSE i \in 1..10 : Digits[i] = ch) - 1

RECURSIVE Num(_)
Num(chars) ==
    IF chars = <<>> THEN 0
    ELSE 10 * Num(SubSeq(chars, 1, Len(chars) - 1)) + DigitVal(chars[Len(chars)])

D2(n) == <<Digits[(n \div 10) + 1], Digits[(n % 10) + 1]>>
D4(n) == D2(n \div 100) \o D2(n % 100)

RECURSIVE Repeat(_, _)
Repeat(s, n) ==
    IF n = 0 THEN ""
    ELSE IF n % 2 = 1 THEN s \o Repeat(s, n - 1)
    ELSE LET half == Repeat(s, n \div 2) IN half \o half

----------------------------------------------------------------------------
(* datetime *)

MAXYEAR == 9999

IsLeap(y) == (y % 4 = 0) /\ ((y % 100 # 0) \/ (y % 400 = 0))
DaysInMonth(y, m) ==
    IF m = 2 THEN (IF IsLeap(y) THEN 29 ELSE 28)
    ELSE IF m \in {4, 6, 9, 11} THEN 30 ELSE 31

\* datetime(y, mo, d, h, mi, s) with or without tzinfo
DateTime(y, mo, d, h, mi, s, aware, off) ==
    [y |-> y, mo |-> mo, d |-> d, h |-> h, mi |-> mi, s |-> s,
     aware |-> aware, off |-> off]

\* dt.replace(tzinfo=None): the fields are kept, the offset is dropped
ReplaceTzNone(dt) == [dt EXCEPT !.aware = FALSE, !.off = 0]

\* datetime.isoformat() of a naive datetime with no microseconds
isoformat(dt) ==
    D4(dt.y) \o <<"-">> \o D2(dt.mo) \o <<"-">> \o D2(dt.d) \o <<"T">>
        \o D2(dt.h) \o <<":">> \o D2(dt.mi) \o <<":">> \o D2(dt.s)

\* a < b raises TypeError for one aware and one naive datetime
Comparable(a, b) == a.aware = b.aware

Key(dt) == <<dt.y, dt.mo, dt.d, dt.h, dt.mi, dt.s>>

RECURSIVE LexLess(_, _)
LexLess(a, b) ==
    IF a = <<>> THEN FALSE
    ELSE IF Head(a) # Head(b) THEN Head(a) < Head(b)
    ELSE LexLess(Tail(a), Tail(b))

\* a < b for two naive datetimes
DtLess(a, b) == LexLess(Key(a), Key(b))

AllDigits(c, idx) == \A i \in idx : IsDigit(c[i])

IsDate(c) ==
    /\ Len(c) >= 10
    /\ AllDigits(c, {1, 2, 3, 4, 6, 7, 9, 10})
    /\ c[5] = "-" /\ c[8] = "-"
    /\ Num(SubSeq(c, 1, 4)) \in 1..MAXYEAR
    /\ Num(SubSeq(c, 6, 7)) \in 1..12
    /\ Num(SubSeq(c, 9, 10)) \in
           1..DaysInMonth(Num(SubSeq(c, 1, 4)), Num(SubSeq(c, 6, 7)))

IsTime(c) ==
    /\ Len(c) >= 19
    /\ AllDigits(c, {12, 13, 15, 16, 18, 19})
    /\ c[14] = ":" /\ c[17] = ":"
    /\ Num(SubSeq(c, 12, 13)) < 24
    /\ Num(SubSeq(c, 15, 16)) < 60
    /\ Num(SubSeq(c, 18, 19)) < 60

IsOffset(c) ==
    /\ Len(c) = 25
    /\ c[20] \in {"+", "-"}
    /\ AllDigits(c, {21, 22, 24, 25})
    /\ c[23] = ":"
    /\ Num(SubSeq(c, 21, 22)) < 24
    /\ Num(SubSeq(c, 24, 25)) < 60

OffsetMinutes(c) ==
    (IF c[20] = "-" THEN -1 ELSE 1)
        * (60 * Num(SubSeq(c, 21, 22)) + Num(SubSeq(c, 24, 25)))

\* the datetime the characters c spell, with the tzinfo tz found in them
iso_datetime(c, tz) ==
    IF "exc" \in DOMAIN tz THEN tz
    ELSE DateTime(Num(SubSeq(c, 1, 4)), Num(SubSeq(c, 6, 7)), Num(SubSeq(c, 9, 10)),
                  IF Len(c) > 10 THEN Num(SubSeq(c, 12, 13)) ELSE 0,
                  IF Len(c) > 10 THEN Num(SubSeq(c, 15, 16)) ELSE 0,
                  IF Len(c) > 10 THEN Num(SubSeq(c, 18, 19)) ELSE 0,
                  tz.aware, tz.off)

\* the tzinfo of an ISO string of the shapes the model's inputs have:
\* YYYY-MM-DD, YYYY-MM-DD?HH:MM:SS, the latter with +HH:MM / -HH:MM, or with
\* Z (accepted from Python 3.11 on); ValueError for anything else
iso_tzinfo(c, date, time, offset, v311) ==
    CASE Len(c) = 10 /\ date -> [aware |-> FALSE, off |-> 0]
      [] Len(c) = 19 /\ date /\ time -> [aware |-> FALSE, off |-> 0]
      [] Len(c) = 20 /\ date /\ time /\ c[20] = "Z" /\ v311 ->
             [aware |-> TRUE, off |-> 0]
      [] Len(c) = 25 /\ date /\ time /\ offset ->
             [aware |-> TRUE, off |-> OffsetMinutes(c)]
      [] OTHER -> [exc |-> "ValueError"]

\* datetime.fromisoformat(v): a datetime or the exception
fromisoformat(v, v311) ==
    IF v.t # "str" THEN [exc |-> "TypeError"]
    ELSE iso_datetime(v.c, iso_tzinfo(v.c, IsDate(v.c), IsTime(v.c), IsOffset(v.c), v311))

IsExc(x) == "exc" \in DOMAIN x
IsNone(x) == "t" \in DOMAIN x /\ x.t = "none"
IsDateTime(x) == "y" \in DOMAIN x

\* _parse_timestamp without lines 20-21: the offset is kept
naive_or_none_keeps_offset(dt) == IF IsExc(dt) THEN None ELSE dt

\* lines 19-24 of _parse_timestamp: an exception becomes None, an aware
\* datetime is made naive
naive_or_none(dt) ==
    IF IsExc(dt) THEN None
    ELSE IF dt.aware THEN ReplaceTzNone(dt)
    ELSE dt

\* _parse_timestamp(ts): None or a naive datetime
parse_timestamp(ts, v311) ==
    IF ~Truthy(ts) THEN None ELSE naive_or_none(fromisoformat(ts, v311))

----------------------------------------------------------------------------
(* Derivative files: one JSON document per line *)

\* a line of a .jsonl file, by what json.loads makes of it
BlankLine == [k |-> "blank"]
InvalidLine == [k |-> "invalid"]
ArrayLine == [k |-> "array"]
ObjectLine(fields) == [k |-> "object", f |-> fields]

\* json.loads(line)
json_loads(line) ==
    CASE line.k = "invalid" -> [exc |-> "JSONDecodeError"]
      [] line.k = "array" -> PyList(1)
      [] line.k = "object" -> [t |-> "object", f |-> line.f]

\* evt.get(name, default) of a JSON object
Get(f, name, default) == IF name \in DOMAIN f THEN f[name] ELSE default

\* x or default, for a string field (an absent field reads as "")
StrOr(s, default) == IF s = "" THEN default ELSE s

FileName(base, ext) == [base |-> base, ext |-> ext]
\* str.lower() of the extensions the model uses
LowerExt(ext) ==
    CASE ext = ".JSONL" -> ".jsonl"
      [] ext = ".TXT" -> ".txt"
      [] ext = ".MD" -> ".md"
      [] OTHER -> ext

JsonlNames == {FileName("a", ".jsonl"), FileName("b", ".JSONL")}
OtherNames == {FileName("c", ".txt")}
DirNames == JsonlNames \cup OtherNames

NoDir == [exists |-> FALSE, files |-> [n \in DirNames |-> <<>>]]

\* os.listdir(dir): the names of the files of dir, in any order (a file of the
\* model exists once it has a line)
ListDirOrders(dir) ==
    LET present == {n \in DirNames : dir.files[n] # <<>>}
    IN  {o \in [1..Cardinality(present) -> present] :
            \A i, j \in DOMAIN o : i # j => o[i] # o[j]}

----------------------------------------------------------------------------
(* api/timeline.py *)

UNKNOWN_TIME == <<"U", "N", "K", "N", "O", "W", "N", "_", "T", "I", "M", "E">>

InterestingKeys ==
    <<"SubjectUserName", "SubjectDomainName", "TargetUserName", "IpAddress",
      "ProcessName", "CommandLine", "ServiceName", "EventType", "LogonType">>

DictHas(items, key) == \E i \in DOMAIN items : items[i][1] = key
DictGet(items, key) == items[CHOOSE i \in DOMAIN items : items[i][1] = key][2]

\* " ".join(pieces)
RECURSIVE Join(_)
Join(pieces) ==
    IF pieces = <<>> THEN ""
    ELSE IF Len(pieces) = 1 THEN pieces[1]
    ELSE pieces[1] \o " " \o Join(Tail(pieces))

RECURSIVE InterestingPieces(_, _)
InterestingPieces(keys, items) ==
    IF keys = <<>> THEN <<>>
    ELSE (IF DictHas(items, Head(keys)) /\ DictGet(items, Head(keys)) # ""
          THEN <<Head(keys) \o "=" \o DictGet(items, Head(keys))>>
          ELSE <<>>)
         \o InterestingPieces(Tail(keys), items)

RECURSIVE NonEmptyPieces(_)
NonEmptyPieces(items) ==
    IF items = <<>> THEN <<>>
    ELSE (IF Head(items)[2] # ""
          THEN <<Head(items)[1] \o "=" \o Head(items)[2]>>
          ELSE <<>>)
         \o NonEmptyPieces(Tail(items))

FirstN(s, n) == SubSeq(s, 1, IF Len(s) < n THEN Len(s) ELSE n)

\* lines 79-84: the fallback to the first five fields, and the join
join_pieces(pieces, items) ==
    Join(IF pieces # <<>> THEN pieces ELSE NonEmptyPieces(FirstN(items, 5)))

\* lines 62-84 on data: [text |-> ...] or the exception
describe_data(data) ==
    IF data.t = "dict"
    THEN [text |-> join_pieces(InterestingPieces(InterestingKeys, data.items),
                               data.items)]
    ELSE \* a list holds none of the keys, and has no items()
         [exc |-> "AttributeError"]

\* data = evt.get("data") or {}
data_or_empty(got) == IF Truthy(got) THEN got ELSE PyDict(<<>>)

\* the description of an event-log record: [text |-> ...] or the exception
description_evtx(f) == describe_data(data_or_empty(Get(f, "data", None)))

\* the description of a registry record
description_registry(f) ==
    "category=" \o StrOr(Get(f, "category", ""), "registry")
        \o " HIVE=" \o StrOr(Get(f, "hive", ""), "UNKNOWN_HIVE")
        \o " Key=" \o Get(f, "key_path", "")
        \o " Name=" \o Get(f, "value_name", "")
        \o " Value=" \o Get(f, "value", "")

Skip == [act |-> "skip"]
Raise(exc) == [act |-> "raise", exc |-> exc]
Emit(ev) == [act |-> "event", ev |-> ev]

\* lines 86-96: the event appended for an event-log record
evtx_event(f, ts, d) ==
    IF IsExc(d) THEN Raise(d.exc)
    ELSE Emit([timestamp |-> isoformat(ts),
               sort_ts |-> ts,
               source |-> "evtx",
               channel |-> Get(f, "channel", ""),
               computer |-> Get(f, "computer", ""),
               event_id |-> Get(f, "event_id", None),
               description |-> d.text])

\* lines 54-55: an event-log record without a usable timestamp is dropped
evtx_record(f, ts) ==
    IF IsNone(ts) THEN Skip ELSE evtx_event(f, ts, description_evtx(f))

\* lines 48-53: evt is what json.loads returned or raised
evtx_value(evt, v311) ==
    IF IsExc(evt) THEN Skip
    ELSE IF evt.t # "object" THEN Raise("AttributeError")
    ELSE evtx_record(evt.f, parse_timestamp(Get(evt.f, "timestamp", None), v311))

\* what one line of an event-log derivative contributes
evtx_line(line, v311) ==
    IF line.k = "blank" THEN Skip ELSE evtx_value(json_loads(line), v311)

\* lines 146-168: the event appended for a registry record
registry_event(f, ts) ==
    Emit([timestamp |-> IF IsNone(ts) THEN UNKNOWN_TIME ELSE isoformat(ts),
          sort_ts |-> IF IsNone(ts) THEN DateTime(MAXYEAR, 12, 31, 0, 0, 0, FALSE, 0)
                      ELSE ts,
          source |-> "registry",
          channel |-> "",
          computer |-> "",
          event_id |-> None,
          description |-> description_registry(f)])

\* the registry loader with the event-log loader's "if ts is None: continue"
registry_record_dropping(f, lw, v311) ==
    IF lw.t = "str" /\ IsDateTime(parse_timestamp(lw, v311))
    THEN registry_event(f, parse_timestamp(lw, v311))
    ELSE Skip

\* lines 141-144: last_write is parsed only when it is a string
registry_record(f, lw, v311) ==
    registry_event(f, IF lw.t = "str" THEN parse_timestamp(lw, v311) ELSE None)

\* lines 129-142: evt is what json.loads returned or raised
registry_value(evt, v311) ==
    IF IsExc(evt) THEN Skip
    ELSE IF evt.t # "object" THEN Raise("AttributeError")
    ELSE registry_record(evt.f, Get(evt.f, "last_write", None), v311)

\* what one line of a registry derivative contributes
registry_line(line, v311) ==
    IF line.k = "blank" THEN Skip ELSE registry_value(json_loads(line), v311)

LineOf(source, line, v311) ==
    IF source = "evtx" THEN evtx_line(line, v311) ELSE registry_line(line, v311)

IsEmit(r) == r.act = "event"
IsRaise(r) == r.act = "raise"
EventOf(emitted) == [i \in DOMAIN emitted |-> emitted[i].ev]

\* rs is what each line of a file contributes: the events are appended to acc
\* unless a line raises, and then the first exception escapes
collect(acc, rs) ==
    IF \E i \in DOMAIN rs : IsRaise(rs[i])
    THEN [exc |-> rs[CHOOSE i \in DOMAIN rs :
                        IsRaise(rs[i]) /\ \A j \in 1..(i - 1) : ~IsRaise(rs[j])].exc]
    ELSE [events |-> acc \o EventOf(SelectSeq(rs, IsEmit))]

\* the loop over the lines of one file: [events |-> ...] or [exc |-> ...]
load_lines(source, lines, acc, v311) ==
    collect(acc, SubSeq([i \in DOMAIN lines |-> LineOf(source, lines[i], v311)],
                        1, Len(lines)))

\* one file of the directory: only *.jsonl is read
load_file(source, dir, name, acc, v311) ==
    IF LowerExt(name.ext) # ".jsonl" THEN [events |-> acc]
    ELSE load_lines(source, dir.files[name], acc, v311)

\* the loop over the files of one directory in listdir order
RECURSIVE load_files(_, _, _, _, _)
load_rest(source, dir, rest, r, v311) ==
    IF IsExc(r) THEN r ELSE load_files(source, dir, rest, r.events, v311)

load_files(source, dir, order, acc, v311) ==
    IF order = <<>> THEN [events |-> acc]
    ELSE load_rest(source, dir, Tail(order),
                   load_file(source, dir, Head(order), acc, v311), v311)

\* _load_evtx_events(case_dir)
load_evtx_events(dir, order, v311) ==
    IF ~dir.exists THEN [events |-> <<>>]
    ELSE load_files("evtx", dir, order, <<>>, v311)

\* _load_registry_events(case_dir)
load_registry_events(dir, order, v311) ==
    IF ~dir.exists THEN [events |-> <<>>]
    ELSE load_files("registry", dir, order, <<>>, v311)

\* the place of each element of s after list.sort(key=sort_ts): ascending and
\* stable, so an element lands after every smaller one and after every equal
\* one that preceded it
SortedPlaces(s) ==
    SubSeq([i \in DOMAIN s |->
               Cardinality({j \in DOMAIN s :
                               \/ DtLess(s[j].sort_ts, s[i].sort_ts)
                               \/ (~DtLess(s[i].sort_ts, s[j].sort_ts) /\ j < i)}) + 1],
           1, Len(s))

Placed(s, pos) ==
    SubSeq([p \in DOMAIN s |-> s[CHOOSE i \in DOMAIN s : pos[i] = p]], 1, Len(s))

\* build_timeline without line 195: the events stay in load order
SortBySortTs_unsorted(s) == s

\* events.sort(key=lambda e: e["sort_ts"])
SortBySortTs(s) == Placed(s, SortedPlaces(s))

\* e.pop("sort_ts", None)
PopSortTs(e) ==
    [timestamp |-> e.timestamp, source |-> e.source, channel |-> e.channel,
     computer |-> e.computer, event_id |-> e.event_id,
     description |-> e.description]

NoResult == [status |-> "none", events |-> <<>>, exc |-> ""]
Returned(events) == [status |-> "returned", events |-> events, exc |-> ""]
Raised(exc) == [status |-> "raised", events |-> <<>>, exc |-> exc]

\* lines 198-201: the internal sort key is dropped from what is returned
strip_sort_ts(sorted) == Returned([i \in DOMAIN sorted |-> PopSortTs(sorted[i])])

\* line 195: sorting raises TypeError on an aware and a naive datetime
sort_events(events) ==
    IF \E i, j \in DOMAIN events : ~Comparable(events[i].sort_ts, events[j].sort_ts)
    THEN Raised("TypeError")
    ELSE strip_sort_ts(SortBySortTs(events))

\* line 192: the registry events follow the event-log events
extend_registry(events, rg) ==
    IF IsExc(rg) THEN Raised(rg.exc) ELSE sort_events(events \o rg.events)

\* line 189: an exception of the event-log loader escapes build_timeline
extend_evtx(ev, rdir, rorder, v311) ==
    IF IsExc(ev) THEN Raised(ev.exc)
    ELSE extend_registry(ev.events, load_registry_events(rdir, rorder, v311))

\* build_timeline(case_dir)
build_timeline(edir, rdir, eorder, rorder, v311) ==
    extend_evtx(load_evtx_events(edir, eorder, v311), rdir, rorder, v311)

----------------------------------------------------------------------------
(* The case directory of an ingestion *)

ROOT == ""
EVTX_DIR == "artifacts/evtx/"
REGISTRY_DIR == "artifacts/registry/"

Path(dir, base, ext) == [dir |-> dir, base |-> base, ext |-> ext]
\* os.path.relpath(path, case_dir)
RelPath(p) == p.dir \o p.base \o p.ext

RootPaths == {Path(ROOT, "README", ".MD"), Path(ROOT, "SOFTWARE", ".reg")}
EvtxPaths == {Path(EVTX_DIR, "Security", ".txt"), Path(EVTX_DIR, "Security", ".jsonl")}
RegistryPaths == {Path(REGISTRY_DIR, "SOFTWARE", ".txt")}
CasePaths == RootPaths \cup EvtxPaths \cup RegistryPaths

\* the files of a directory that exist (a file of the model exists once it
\* has a line), and the orders in which os.listdir can give them
Present(files, paths) == {q \in paths : files[q] # <<>>}
Orders(set) ==
    {o \in [1..Cardinality(set) -> set] : \A i, j \in DOMAIN o : i # j => o[i] # o[j]}

Whitespace == {" ", "\t", "\n"}

RECURSIVE LStrip(_)
LStrip(c) == IF c # <<>> /\ Head(c) \in Whitespace THEN LStrip(Tail(c)) ELSE c
RECURSIVE RStrip(_)
RStrip(c) ==
    IF c # <<>> /\ c[Len(c)] \in Whitespace THEN RStrip(SubSeq(c, 1, Len(c) - 1)) ELSE c
\* str.strip() of one line
Strip(c) == RStrip(LStrip(c))

NonEmpty(c) == c # <<>>
StrippedLines(lines) == SubSeq([i \in DOMAIN lines |-> Strip(lines[i])], 1, Len(lines))

\* the non-empty stripped lines of a file read line by line
line_texts(lines) == SelectSeq(StrippedLines(lines), NonEmpty)

\* lines[lo..hi] with the outer whitespace of the first and last line removed
Trimmed(lines, lo, hi) ==
    [k \in 1..(hi - lo + 1) |->
        IF lo = hi THEN Strip(lines[lo])
        ELSE IF k = 1 THEN LStrip(lines[lo])
        ELSE IF k = hi - lo + 1 THEN RStrip(lines[hi])
        ELSE lines[lo + k - 1]]

IsBlank(line) == Strip(line) = <<>>

\* the number of blank lines at the start and at the end of a file
LeadingBlank(lines) ==
    Cardinality({i \in DOMAIN lines : \A j \in 1..i : IsBlank(lines[j])})
TrailingBlank(lines) ==
    Cardinality({i \in DOMAIN lines : \A j \in i..Len(lines) : IsBlank(lines[j])})

TrimBlank(lines, lead, trail) ==
    IF lead = Len(lines) THEN <<>> ELSE Trimmed(lines, lead + 1, Len(lines) - trail)

\* f.read().strip(): the text of a whole file, as its lines, without the
\* whitespace and the blank lines at either end
StripContent(lines) == TrimBlank(lines, LeadingBlank(lines), TrailingBlank(lines))

----------------------------------------------------------------------------
(* api/embedder.py *)

\* ids = [f"{case_id}_{i}" for i in range(len(texts))]
chunk_ids(case_id, n) ==
    SubSeq([k \in 1..n |-> case_id \o "_" \o ToString(k - 1)], 1, n)

Range(seq) == {seq[i] : i \in DOMAIN seq}

\* coll.add(ids=ids, ...): the ids the collection holds after the call
coll_add(coll, ids) == coll \cup Range(ids)

\* lines 31-40 of embed_texts, on the state of the store db == [store, calls]
add_to_collection(db, case_id, texts, metadata_list, ids) ==
    [store |-> [db.store EXCEPT ![case_id] = coll_add(@, ids)],
     calls |-> Append(db.calls, [case_id |-> case_id, ids |-> ids])]

\* embed_texts(case_id, texts, metadata_list)
embed_texts(db, case_id, texts, metadata_list) ==
    IF texts = <<>> THEN db
    ELSE add_to_collection(db, case_id, texts, metadata_list,
                           chunk_ids(case_id, Len(texts)))

----------------------------------------------------------------------------
(* api/ingest_utils.py *)

TEXT_EXTENSIONS == {".txt", ".log", ".json", ".csv", ".md"}
REGISTRY_EXTENSIONS == {".dat", ".hiv", ".hive", ".reg"}
max_batch == 5000

Documents(ls) == [i \in DOMAIN ls |-> <<ls[i]>>]
Metadata(n, source, case_id, file) ==
    [i \in 1..n |-> [source |-> source, case_id |-> case_id, file |-> file]]

\* text_chunks.append(line); metadata_list.append({...}) for each line of ls
append_lines(acc, ls, source, case_id, file) ==
    [acc EXCEPT !.texts = @ \o Documents(ls),
                !.metas = @ \o Metadata(Len(ls), source, case_id, file)]

\* lines 33-48: one file of artifacts/evtx, read if its name ends with .txt
index_evtx_file(acc, q, case_id) ==
    IF q.ext # ".txt" THEN acc
    ELSE append_lines(acc, line_texts(acc.files[q]), "evtx", case_id,
                      EVTX_DIR \o q.base \o q.ext)

\* lines 31-32: the loop over os.listdir(artifacts/evtx)
RECURSIVE index_evtx(_, _, _)
index_evtx(acc, order, case_id) ==
    IF order = <<>> THEN acc
    ELSE index_evtx(index_evtx_file(acc, Head(order), case_id), Tail(order), case_id)

\* generate_registry_derivatives(path, case_dir): the parser writes the events
\* of the hive, one per line, to artifacts/registry/<name>.txt and reports
\* their number; it reports 0 and writes nothing when it finds none
registry_derivative(files, q, events) ==
    [events_count |-> Len(events),
     txt_path |-> Path(REGISTRY_DIR, q.base, ".txt"),
     files |-> IF events = <<>> THEN files
               ELSE [files EXCEPT ![Path(REGISTRY_DIR, q.base, ".txt")] = events]]

generate_registry_derivatives(files, q) ==
    registry_derivative(files, q, line_texts(files[q]))

\* lines 77-89: the lines of the derivative become registry chunks and are
\* written to the registry summary
index_registry_lines(acc, ls, case_id, file) ==
    [append_lines(acc, ls, "registry", case_id, file) EXCEPT !.reg = @ \o ls]

\* lines 75-76
index_hive(acc, q, stats, case_id) ==
    IF stats.events_count > 0
    THEN index_registry_lines([acc EXCEPT !.files = stats.files],
                              line_texts(stats.files[stats.txt_path]),
                              case_id, RelPath(q))
    ELSE [acc EXCEPT !.files = stats.files]

\* lines 99-105: a file with content is one chunk
index_text(acc, content, q, case_id) ==
    IF content = <<>> THEN acc
    ELSE [acc EXCEPT !.texts = Append(@, content),
                     !.metas = Append(@, [source |-> "file", case_id |-> case_id,
                                          file |-> RelPath(q)])]

\* lines 65-105: one file of the walk, by its lower-cased extension
visit_file(acc, q, ext, case_id) ==
    IF ext \in REGISTRY_EXTENSIONS
    THEN index_hive(acc, q, generate_registry_derivatives(acc.files, q), case_id)
    ELSE IF ext \in TEXT_EXTENSIONS
    THEN index_text(acc, StripContent(acc.files[q]), q, case_id)
    ELSE acc

\* the loop over the files of one directory of the walk
RECURSIVE visit_files(_, _, _)
visit_files(acc, order, case_id) ==
    IF order = <<>> THEN acc
    ELSE visit_files(visit_file(acc, Head(order), LowerExt(Head(order).ext), case_id),
                     Tail(order), case_id)

\* the registry directory is listed when the walk reaches it, after the
\* derivatives of this run were written
visit_registry_dir(acc, case_id) ==
    visit_files(acc, CHOOSE o \in Orders(Present(acc.files, RegistryPaths)) : TRUE,
                case_id)

\* os.walk below artifacts/, which is walked if it existed when the root was
\* listed: its two directories in either order
visit_artifacts(acc, walked, evtxFirst, evtxOrder, case_id) ==
    IF ~walked THEN acc
    ELSE IF evtxFirst
    THEN visit_registry_dir(visit_files(acc, evtxOrder, case_id), case_id)
    ELSE visit_files(visit_registry_dir(acc, case_id), evtxOrder, case_id)

\* lines 63-105: os.walk(case_dir), top down
walk(acc, walked, rootOrder, evtxFirst, evtxOrder, case_id) ==
    visit_artifacts(visit_files(acc, rootOrder, case_id), walked, evtxFirst,
                    evtxOrder, case_id)

\* range(0, total, max_batch)
RECURSIVE batch_starts(_, _)
batch_starts(start, total) ==
    IF start >= total THEN <<>> ELSE <<start>> \o batch_starts(start + max_batch, total)

PySlice_inclusive(list, start, end) ==
    SubSeq(list, start + 1, IF end + 1 < Len(list) THEN end + 1 ELSE Len(list))

\* list[start:end]
PySlice(list, start, end) ==
    SubSeq(list, start + 1, IF end < Len(list) THEN end ELSE Len(list))

\* lines 124-126: the batches handed to embed_texts, in order
Batches(texts, metas, starts) ==
    [k \in DOMAIN starts |->
        [texts |-> PySlice(texts, starts[k], starts[k] + max_batch),
         metas |-> PySlice(metas, starts[k], starts[k] + max_batch)]]

\* lines 123-129: embed_texts on each batch in turn
RECURSIVE embed_batches(_, _, _)
embed_batches(db, batches, case_id) ==
    IF batches = <<>> THEN db
    ELSE embed_batches(embed_texts(db, case_id, Head(batches).texts,
                                   Head(batches).metas),
                       Tail(batches), case_id)

NoRun ==
    [status |-> "none", files |-> [q \in CasePaths |-> <<>>], texts |-> <<>>,
     metas |-> <<>>, batches |-> <<>>, submitted |-> 0, returned |-> 0]

\* lines 116-131: what the run collected, the batches it cut, the number of
\* embed_texts calls that reached the collection, and the count it returned
run_record(acc, batches, submitted) ==
    [status |-> "returned", files |-> acc.files, texts |-> acc.texts,
     metas |-> acc.metas, batches |-> batches, submitted |-> submitted,
     returned |-> Len(acc.texts)]

\* lines 116-126: nothing is submitted when no text was found
batches_of(acc) ==
    IF acc.texts = <<>> THEN <<>>
    ELSE Batches(acc.texts, acc.metas, batch_starts(0, Len(acc.texts)))

\* lines 23-48: the state of the collection loop after the evtx directory
collect_evtx(files, evtxOrder, case_id) ==
    index_evtx([texts |-> <<>>, metas |-> <<>>, reg |-> <<>>, files |-> files],
               evtxOrder, case_id)

\* lines 23-111 of build_and_index_case_corpus(case_dir, case_id)
collect_case(files, listOrder, rootOrder, evtxFirst, evtxOrder, case_id) ==
    walk(collect_evtx(files, listOrder, case_id),
         Present(files, EvtxPaths \cup RegistryPaths) # {},
         rootOrder, evtxFirst, evtxOrder, case_id)

----------------------------------------------------------------------------
(* Inputs *)

LongValue == Repeat("A", LongLen)

Ts2024 == isoformat(DateTime(2024, 1, 2, 10, 0, 0, FALSE, 0))
Ts2023 == isoformat(DateTime(2023, 6, 1, 0, 0, 0, FALSE, 0))
TsReg == isoformat(DateTime(2024, 3, 1, 8, 0, 0, FALSE, 0))
TsLast == isoformat(DateTime(MAXYEAR, 12, 31, 23, 59, 59, FALSE, 0))
TsLastNoon == isoformat(DateTime(MAXYEAR, 12, 31, 12, 0, 0, FALSE, 0))
Garbage == <<"n", "o", "p", "e">>

\* timestamp arguments: absent, empty, malformed, out of range, plain,
\* date only, offset-bearing, zone-suffixed, and not a string at all
TsInputs ==
    {None, PyStr(<<>>), PyStr(Garbage), PyInt(5), PyInt(0),
     PyStr(Ts2024), PyStr(Ts2023), PyStr(TsLast),
     PyStr(SubSeq(Ts2024, 1, 10)),
     PyStr(Ts2024 \o <<"Z">>),
     PyStr(Ts2024 \o <<"+", "0", "0", ":", "0", "0">>),
     PyStr(Ts2024 \o <<"+", "0", "5", ":", "0", "0">>),
     PyStr(Ts2023 \o <<"-", "0", "8", ":", "0", "0">>),
     PyStr(<<"2", "0", "2", "4", "-", "1", "3", "-", "0", "2">>),
     PyStr(<<"2", "0", "2", "3", "-", "0", "2", "-", "2", "9">>)}

\* the record of the end-to-end example: a logon with a Z-suffixed timestamp
EvtxLogon ==
    ObjectLine([timestamp |-> PyStr(Ts2024 \o <<"Z">>), event_id |-> PyInt(4624),
                channel |-> "Security", computer |-> "HOST1",
                data |-> PyDict(<< <<"TargetUserName", "alice">>,
                                   <<"LogonType", "3">> >>)])
\* an older record with no data
EvtxOld == ObjectLine([timestamp |-> PyStr(Ts2023), channel |-> "System"])
\* a record with no timestamp field
EvtxNoTs ==
    ObjectLine([event_id |-> PyInt(1),
                data |-> PyDict(<< <<"IpAddress", "10.0.0.1">> >>)])
\* a record of the last representable day, with no interesting field
EvtxLast ==
    ObjectLine([timestamp |-> PyStr(TsLast),
                data |-> PyDict(<< <<"a", "1">>, <<"b", "">>, <<"c", "3">>,
                                   <<"d", "4">>, <<"e", "5">>, <<"f", "6">> >>)])
\* an offset-bearing timestamp and a long command line
EvtxLong ==
    ObjectLine([timestamp |-> PyStr(Ts2024 \o <<"+", "0", "5", ":", "0", "0">>),
                data |-> PyDict(<< <<"CommandLine", LongValue>> >>)])
\* data is a list, not a field map
EvtxBadData == ObjectLine([timestamp |-> PyStr(Ts2024), data |-> PyList(1)])

EvtxLines ==
    {BlankLine, InvalidLine, ArrayLine, EvtxLogon, EvtxOld, EvtxNoTs, EvtxLast,
     EvtxLong, EvtxBadData}

\* the record of the end-to-end example: a run key with no last_write
RegRunKey ==
    ObjectLine([hive |-> "SOFTWARE", category |-> "run_key", key_path |-> "Run",
                value_name |-> "Updater", value |-> "C:\\x.exe"])
RegKnown == ObjectLine([hive |-> "SYSTEM", last_write |-> PyStr(TsReg)])
RegLast == ObjectLine([hive |-> "SAM", last_write |-> PyStr(TsLastNoon)])
RegIntLw == ObjectLine([last_write |-> PyInt(5), value |-> LongValue])
RegBadLw == ObjectLine([hive |-> "", last_write |-> PyStr(Garbage)])

RegistryLines ==
    {BlankLine, InvalidLine, ArrayLine, RegRunKey, RegKnown, RegLast, RegIntLw,
     RegBadLw}

\* what a file that is not a .jsonl file is given
IgnoredLines(source) == IF source = "evtx" THEN {EvtxLogon} ELSE {RegRunKey}

RECURSIVE SumLens(_, _)
SumLens(files, names) ==
    IF names = {} THEN 0
    ELSE LET n == CHOOSE x \in names : TRUE
         IN  Len(files[n]) + SumLens(files, names \ {n})

TotalLines == SumLens(evtxDir.files, DirNames) + SumLens(regDir.files, DirNames)

----------------------------------------------------------------------------
(* The state machine *)

\* the one case of the model, and another case id that texts are posted to
CaseId == "c1"
Cases == {"c1", "c2"}

\* lines of the files of the case: blank, plain, and padded with whitespace
CaseLines == {<<" ">>, <<"a">>, <<" ", "b", " ">>}
\* the text posted to /ingest_text
PostedText == <<<<"t">>>>

RECURSIVE SumCaseLines(_, _)
SumCaseLines(files, paths) ==
    IF paths = {} THEN 0
    ELSE LET q == CHOOSE x \in paths : TRUE
         IN  Len(files[q]) + SumCaseLines(files, paths \ {q})

NoSummary == [exists |-> FALSE, lines |-> <<>>]

Init ==
    /\ py311 \in BOOLEAN
    /\ evtxDir = NoDir
    /\ regDir = NoDir
    /\ result = NoResult
    /\ parsed = <<>>
    /\ caseFiles = [q \in CasePaths |-> <<>>]
    /\ evtxSummary = NoSummary
    /\ regSummary = NoSummary
    /\ store = [c \in Cases |-> {}]
    /\ addCalls = <<>>
    /\ lastRun = NoRun

AppendTo(dir, name, line) ==
    [exists |-> TRUE, files |-> [dir.files EXCEPT ![name] = Append(@, line)]]

\* the event-log parser appends a line to a file of artifacts/evtx
AppendEvtxLine ==
    /\ TotalLines < MaxLines
    /\ \E name \in DirNames :
         \E line \in (IF name \in JsonlNames THEN EvtxLines ELSE IgnoredLines("evtx")) :
            evtxDir' = AppendTo(evtxDir, name, line)
    /\ result' = NoResult
    /\ UNCHANGED <<py311, regDir, parsed, ingestVars>>

\* the registry parser appends a line to a file of artifacts/registry
AppendRegistryLine ==
    /\ TotalLines < MaxLines
    /\ \E name \in DirNames :
         \E line \in (IF name \in JsonlNames THEN RegistryLines
                      ELSE IgnoredLines("registry")) :
            regDir' = AppendTo(regDir, name, line)
    /\ result' = NoResult
    /\ UNCHANGED <<py311, evtxDir, parsed, ingestVars>>

BulkFile(line) ==
    [exists |-> TRUE,
     files |-> [n \in DirNames |->
                   IF n = FileName("a", ".jsonl") THEN [i \in 1..BulkLen |-> line]
                   ELSE <<>>]]

\* a parser writes one large derivative into an empty case
WriteBulkFile ==
    /\ ~evtxDir.exists /\ ~regDir.exists
    /\ \/ /\ evtxDir' = BulkFile(EvtxOld)
          /\ UNCHANGED regDir
       \/ /\ \E line \in {RegRunKey, RegKnown} : regDir' = BulkFile(line)
          /\ UNCHANGED evtxDir
    /\ result' = NoResult
    /\ UNCHANGED <<py311, parsed, ingestVars>>

\* GET timeline: build_timeline(case_dir)
BuildTimeline ==
    /\ \E eorder \in ListDirOrders(evtxDir), rorder \in ListDirOrders(regDir) :
          result' = build_timeline(evtxDir, regDir, eorder, rorder, py311)
    /\ UNCHANGED <<py311, evtxDir, regDir, parsed, ingestVars>>

\* a call of _parse_timestamp on its own
ParseTimestamp ==
    /\ \E ts \in TsInputs :
          parsed' = Append(IF Len(parsed) < MaxParsed THEN parsed ELSE Tail(parsed),
                           [input |-> ts, out |-> parse_timestamp(ts, py311)])
    /\ UNCHANGED <<py311, timelineVars, ingestVars>>

\* an upload, or the event-log parser, appends a line to a file of the case
PutCaseLine ==
    /\ SumCaseLines(caseFiles, CasePaths) < MaxCaseLines
    /\ \E q \in RootPaths \cup EvtxPaths, line \in CaseLines :
          caseFiles' = [caseFiles EXCEPT ![q] = Append(@, line)]
    /\ UNCHANGED <<py311, timelineVars, parsed, evtxSummary, regSummary, store,
                   addCalls, lastRun>>

\* the event-log parser writes one large text derivative into an empty case
WriteBulkDerivative ==
    /\ SumCaseLines(caseFiles, CasePaths) = 0
    /\ addCalls = <<>>
    /\ \E n \in {max_batch - 1, max_batch} :
          caseFiles' = [caseFiles EXCEPT ![Path(EVTX_DIR, "Security", ".txt")] =
                                             [i \in 1..n |-> <<"a">>]]
    /\ UNCHANGED <<py311, timelineVars, parsed, evtxSummary, regSummary, store,
                   addCalls, lastRun>>

\* whether the walk takes artifacts/evtx before artifacts/registry; with no
\* hive in the case there is no registry directory to order
DirOrders(files) ==
    IF Present(files, RegistryPaths) = {} /\ files[Path(ROOT, "SOFTWARE", ".reg")] = <<>>
    THEN {TRUE} ELSE BOOLEAN

\* the state after build_and_index_case_corpus(case_dir, CaseId) has collected
\* acc, cut it into batches and left the store as db
Indexed(acc, batches, db) ==
    /\ caseFiles' = acc.files
    /\ evtxSummary' = [exists |-> TRUE, lines |-> <<>>]
    /\ regSummary' = [exists |-> TRUE, lines |-> acc.reg]
    /\ lastRun' = run_record(acc, batches, Len(db.calls) - Len(addCalls))
    /\ store' = db.store
    /\ addCalls' = db.calls

\* build_and_index_case_corpus(case_dir, case_id) on the case
Ingest ==
    /\ Len(addCalls) < MaxCalls
    /\ \E listOrder \in Orders(Present(caseFiles, EvtxPaths)),
          rootOrder \in Orders(Present(caseFiles, RootPaths)),
          evtxOrder \in Orders(Present(caseFiles, EvtxPaths)),
          evtxFirst \in DirOrders(caseFiles) :
          \E acc \in {collect_case(caseFiles, listOrder, rootOrder, evtxFirst,
                                    evtxOrder, CaseId)} :
             \E batches \in {batches_of(acc)} :
                \E db \in {embed_batches([store |-> store, calls |-> addCalls],
                                         batches, CaseId)} :
                   Indexed(acc, batches, db)
    /\ UNCHANGED <<py311, timelineVars, parsed>>

\* POST /ingest_text: embed_texts(cid, [req.text], [req.metadata or {}])
IngestText ==
    /\ Len(addCalls) < MaxCalls
    /\ \E cid \in Cases :
          \E db \in {embed_texts([store |-> store, calls |-> addCalls], cid,
                                  <<PostedText>>, <<[source |-> "post"]>>)} :
             store' = db.store /\ addCalls' = db.calls
    /\ UNCHANGED <<py311, timelineVars, parsed, caseFiles, evtxSummary, regSummary,
                   lastRun>>

NextTimeline == AppendEvtxLine \/ AppendRegistryLine \/ WriteBulkFile \/ BuildTimeline
NextParse == ParseTimestamp
NextIngest == PutCaseLine \/ WriteBulkDerivative \/ Ingest \/ IngestText

Next == NextTimeline \/ NextParse \/ NextIngest

\* the timeline over a case's derivative directories
SpecTimeline == Init /\ [][NextTimeline]_vars
\* _parse_timestamp on its own
SpecParse == Init /\ [][NextParse]_vars
\* ingestion of a case and posted texts; the interpreter version plays no part
InitIngest == Init /\ py311 = TRUE
SpecIngest == InitIngest /\ [][NextIngest]_vars
Spec == Init /\ [][Next]_vars

----------------------------------------------------------------------------
(* Properties of the timeline *)

Known(e) == e.timestamp # UNKNOWN_TIME
Unknown(e) == e.timestamp = UNKNOWN_TIME
KnownEvents(events) == SelectSeq(events, Known)

\* the instants of known-time events, read back from their timestamps
Instants(events) ==
    SubSeq([i \in DOMAIN events |-> fromisoformat(PyStr(events[i].timestamp), TRUE)],
           1, Len(events))
Ascending(inst) == \A i, j \in DOMAIN inst : i < j => ~DtLess(inst[j], inst[i])
Descending(inst) == \A i, j \in DOMAIN inst : i < j => ~DtLess(inst[i], inst[j])

\* the lines of the files of dir that the loaders read, one file after another
RECURSIVE ReadLinesOf(_, _)
ReadLinesOf(dir, names) ==
    IF names = {} THEN <<>>
    ELSE LET n == CHOOSE x \in names : TRUE
         IN  (IF LowerExt(n.ext) = ".jsonl" THEN dir.files[n] ELSE <<>>)
                 \o ReadLinesOf(dir, names \ {n})
ReadLines(dir) == ReadLinesOf(dir, DirNames)

IsObject(line) == line.k = "object"
IsDefective(line) ==
    \/ line.k \in {"invalid", "array"}
    \/ line.k = "object" /\ "data" \in DOMAIN line.f /\ line.f.data.t = "list"
\* a well-formed record line: a JSON object whose data, if any, is a field map
WellFormed(line) == IsObject(line) /\ ~IsDefective(line)
HasTimestamp(line) ==
    WellFormed(line) /\ IsDateTime(parse_timestamp(Get(line.f, "timestamp", None), py311))
HasLastWrite(line) ==
    /\ WellFormed(line)
    /\ Get(line.f, "last_write", None).t = "str"
    /\ IsDateTime(parse_timestamp(Get(line.f, "last_write", None), py311))
NoLastWrite(line) == WellFormed(line) /\ ~HasLastWrite(line)
FromEvtx(e) == e.source = "evtx"
FromRegistry(e) == e.source = "registry"

\* C2: in the list build_timeline returns, no known-time event follows an
\* unknown-time event, whatever the timestamps are.
C2_UnknownTail ==
    result.status = "returned" =>
        \A i, j \in DOMAIN result.events :
            i < j => ~(Unknown(result.events[i]) /\ Known(result.events[j]))

\* C3: build_timeline, called without a limit, returns at most 200 events
\* however many records the derivative files hold.
C3_AtMostDefaultLimit ==
    result.status = "returned" => Len(result.events) <= 200

\* C5: the description of every event build_timeline returns is at most 400
\* characters long.
C5_DescriptionAtMost400 ==
    result.status = "returned" =>
        \A i \in DOMAIN result.events : Len(result.events[i].description) <= 400

\* C6: _parse_timestamp never raises: for every argument it returns None or a
\* naive datetime, and any two datetimes it returned can be compared.
C6_ParseTimestampTotal ==
    /\ \A i \in DOMAIN parsed :
          /\ ~IsExc(parsed[i].out)
          /\ IsNone(parsed[i].out) \/ (IsDateTime(parsed[i].out) /\ ~parsed[i].out.aware)
    /\ \A i, j \in DOMAIN parsed :
          (IsDateTime(parsed[i].out) /\ IsDateTime(parsed[j].out)) =>
              Comparable(parsed[i].out, parsed[j].out)

\* an offset-bearing timestamp was normalised and a malformed one rejected
C6_Witness ==
    \E i, j \in DOMAIN parsed :
        /\ parsed[i].input.t = "str" /\ Len(parsed[i].input.c) = 25
        /\ IsDateTime(parsed[i].out)
        /\ parsed[j].input = PyStr(Garbage) /\ IsNone(parsed[j].out)

C9_OneEventPerRecord ==
    result.status = "returned" =>
        Len(result.events) = Len(SelectSeq(ReadLines(evtxDir), WellFormed))
                             + Len(SelectSeq(ReadLines(regDir), WellFormed))

\* C9 as amended: in the list build_timeline returns, every well-formed
\* registry line yields exactly one event, an unknown-time one when its
\* last_write is missing, not a string or not parsable, and a well-formed
\* event-log line yields one event when its timestamp parses and none
\* otherwise.
C9_EventsPerRecord ==
    result.status = "returned" =>
        /\ Len(SelectSeq(result.events, FromRegistry))
               = Len(SelectSeq(ReadLines(regDir), WellFormed))
        /\ Len(SelectSeq(result.events, Unknown))
               = Len(SelectSeq(ReadLines(regDir), NoLastWrite))
        /\ Len(SelectSeq(result.events, FromEvtx))
               = Len(SelectSeq(ReadLines(evtxDir), HasTimestamp))
        /\ \A i \in DOMAIN result.events :
               Unknown(result.events[i]) => FromRegistry(result.events[i])

\* an event-log record without a timestamp was dropped and a registry record
\* without a usable last_write was kept
C9_Witness ==
    /\ result.status = "returned"
    /\ evtxDir.files[FileName("a", ".jsonl")] = <<EvtxNoTs>>
    /\ regDir.files[FileName("b", ".JSONL")] = <<RegBadLw>>
    /\ Len(result.events) = 1

\* C10: a defective line is skipped where it stands: build_timeline does not
\* raise, and every other line still has its events in the result.
C10_DefectiveLineSkipped ==
    result.status # "none" =>
        /\ result.status = "returned"
        /\ Len(SelectSeq(result.events, FromRegistry))
               = Len(SelectSeq(ReadLines(regDir), WellFormed))
        /\ Len(SelectSeq(result.events, FromEvtx))
               = Len(SelectSeq(ReadLines(evtxDir), HasTimestamp))

(* Ingestion *)

SameCase(i, j) == addCalls[i].case_id = addCalls[j].case_id

\* C1: the ids that any two embed_texts calls on the same case assign are
\* disjoint, whether the calls are batches of one run, two runs over the same
\* directory, or posted texts.
C1_IdsNeverCollide ==
    \A i, j \in DOMAIN addCalls :
        (i < j /\ SameCase(i, j)) =>
            Range(addCalls[i].ids) \cap Range(addCalls[j].ids) = {}

CeilDiv(n, d) == (n + d - 1) \div d
Min(a, b) == IF a < b THEN a ELSE b
LastSize(total) == IF total % max_batch = 0 THEN max_batch ELSE total % max_batch

\* batch k is the k-th slice of max_batch chunks, with the metadata of the
\* same positions
IsSlice(batch, k, texts, metas) ==
    /\ batch.texts = SubSeq(texts, (k - 1) * max_batch + 1, Min(k * max_batch, Len(texts)))
    /\ batch.metas = SubSeq(metas, (k - 1) * max_batch + 1, Min(k * max_batch, Len(metas)))
    /\ Len(batch.texts) = Len(batch.metas)
    /\ Len(batch.texts) = IF k * max_batch <= Len(texts) THEN max_batch
                          ELSE LastSize(Len(texts))

BatchedInOrder(run) ==
    /\ run.submitted = CeilDiv(Len(run.texts), max_batch)
    /\ Len(run.batches) = run.submitted
    /\ \A k \in DOMAIN run.batches : IsSlice(run.batches[k], k, run.texts, run.metas)
    /\ Len(run.batches[Len(run.batches)].texts) = LastSize(Len(run.texts))

\* C4: a run that collected L > 0 chunks calls embed_texts ceil(L / 5000)
\* times, batch k being chunks (k-1)*5000+1 .. min(k*5000, L) with the metadata
\* of the same positions: every batch but the last has 5000 chunks and the
\* last has L mod 5000, or 5000 when L is a multiple of 5000.
C4_BatchesAreConsecutiveSlices ==
    (lastRun.status = "returned" /\ lastRun.texts # <<>>) => BatchedInOrder(lastRun)

\* C4 witness: a run cut its chunks into a full batch and a last batch of one
\* chunk, whose metadata differs from that of the first chunk.
C4_Witness ==
    /\ lastRun.status = "returned"
    /\ Len(lastRun.batches) = 2
    /\ Len(lastRun.batches[1].texts) = max_batch
    /\ Len(lastRun.batches[2].texts) = 1
    /\ lastRun.batches[2].metas[1] # lastRun.batches[1].metas[1]

HasText(lines) == StripContent(lines) # <<>>
LineCount(files, q) == Len(line_texts(files[q]))

\* the count when every file is in one class: the lines of the event-log
\* derivative and of the registry derivative, and one for the plain-text file
CountedOnce(files) ==
    LineCount(files, Path(EVTX_DIR, "Security", ".txt"))
    + LineCount(files, Path(REGISTRY_DIR, "SOFTWARE", ".txt"))
    + (IF HasText(files[Path(ROOT, "README", ".MD")]) THEN 1 ELSE 0)

\* C7: a run returns one chunk per non-empty line of each event-log or
\* registry derivative plus one chunk per plain-text file with content, no
\* file's text being counted under two sources.
C7_EachFileCountedOnce ==
    lastRun.status = "returned" => lastRun.returned = CountedOnce(lastRun.files)

Chunk(run, i) == [text |-> run.texts[i], meta |-> run.metas[i]]
Chunks(run) == SubSeq([i \in DOMAIN run.texts |-> Chunk(run, i)], 1, Len(run.texts))
IsEvtxChunk(c) == c.meta.source = "evtx"
IsRegistryChunk(c) == c.meta.source = "registry"
\* the derivative lines behind a sequence of line chunks, in order
LinesOfChunks(cs) == SubSeq([i \in DOMAIN cs |-> cs[i].text[1]], 1, Len(cs))

\* C11: after a run, evtx_summaries.jsonl holds exactly the lines that became
\* evtx chunks in that run and registry_summaries.jsonl exactly the lines that
\* became registry chunks in that run, in order, with nothing of earlier runs.
C11_SummariesHoldChunkLines ==
    lastRun.status = "returned" =>
        /\ evtxSummary.exists /\ regSummary.exists
        /\ evtxSummary.lines = LinesOfChunks(SelectSeq(Chunks(lastRun), IsEvtxChunk))
        /\ regSummary.lines = LinesOfChunks(SelectSeq(Chunks(lastRun), IsRegistryChunk))

====
